---------------------------- MODULE Spec2Model ----------------------------
(***************************************************************************)
(* A model of sovabids' rule resolution and mapping engine                 *)
(* (src/sovabids/rules.py): path extraction, deep merge of rule documents, *)
(* the per-file build (dry / preview / write) and the aggregator.          *)
(*                                                                         *)
(* A string is a sequence of atoms (characters, or chunks of characters    *)
(* that are never split).  A document value is a tagged record:            *)
(*    [k |-> "str",  v |-> string]                                         *)
(*    [k |-> "list", v |-> sequence of strings]                            *)
(*    [k |-> "map",  v |-> function from keys to document values]          *)
(***************************************************************************)
EXTENDS Integers, Sequences, FiniteSets, TLC

---------------------------------------------------------------------------
(* Bounds of the model *)

MaxPathLen == 4
MaxDocs == 2
MaxFiles == 2
MaxCalls == 1

---------------------------------------------------------------------------
(* Documents *)

Str(s) == [k |-> "str", v |-> s]
List(l) == [k |-> "list", v |-> l]
Map(f) == [k |-> "map", v |-> f]
EmptyDoc == Map([key \in {} |-> key])

IsMap(d) == d.k = "map"
Keys(d) == DOMAIN d.v
Has(d, key) == IsMap(d) /\ key \in DOMAIN d.v

\* dict.get(key, default)
Get(d, key, default) == IF key \in DOMAIN d.v THEN d.v[key] ELSE default

\* d[key] = val
Put(d, key, val) ==
  Map([x \in DOMAIN d.v \cup {key} |-> IF x = key THEN val ELSE d.v[x]])

\* del d[key]
Del(d, key) == Map([x \in DOMAIN d.v \ {key} |-> d.v[x]])

Min(S) == CHOOSE x \in S : \A y \in S : x <= y
Max(S) == CHOOSE x \in S : \A y \in S : x >= y

---------------------------------------------------------------------------
(* RuleMerger: sovabids.dicts.deep_merge_N *)

RECURSIVE deep_merge(_, _)
deep_merge_shallow(a, b) ==
  Map([key \in DOMAIN a.v \cup DOMAIN b.v |->
        IF key \in DOMAIN b.v THEN b.v[key] ELSE a.v[key]])

\* One merge step: keys of both; a shared key holding mappings on both sides
\* is merged recursively, any other shared key takes b's value.
deep_merge(a, b) ==
  Map([key \in DOMAIN a.v \cup DOMAIN b.v |->
        IF key \notin DOMAIN b.v THEN a.v[key]
        ELSE IF key \notin DOMAIN a.v THEN b.v[key]
        ELSE IF IsMap(a.v[key]) /\ IsMap(b.v[key])
             THEN deep_merge(a.v[key], b.v[key])
             ELSE b.v[key]])

RECURSIVE deep_merge_from(_, _, _)
deep_merge_from(acc, l, i) ==
  IF i > Len(l) THEN acc ELSE deep_merge_from(deep_merge(acc, l[i]), l, i + 1)

\* Left to right over the list, starting from the empty document.
deep_merge_N(l) == deep_merge_from(EmptyDoc, l, 1)

---------------------------------------------------------------------------
(* PathExtractor: sovabids.parsers *)

\* string.replace('\\','/')
posix(s) == [i \in 1..Len(s) |-> IF s[i] = "\\" THEN "/" ELSE s[i]]

HasPrefix(s, pre) == Len(s) >= Len(pre) /\ SubSeq(s, 1, Len(pre)) = pre
Drop(s, n) == SubSeq(s, n + 1, Len(s))

\* Regular expression tokens
Lit(c) == [t |-> "lit", c |-> c, q |-> ""]
AnyChar == [t |-> "any", c |-> "", q |-> ""]
Grp(q) == [t |-> "grp", c |-> "", q |-> q]
Rep(q) == [t |-> "rep", c |-> "", q |-> q]

\* The regex compiler on the subset of the syntax the rules use:
\* (.*?) (.*) (.+) capture groups, .*? .* .+ repetitions, . and \c, literals.
RECURSIVE re_compile(_)
re_compile(p) ==
  IF p = <<>> THEN <<>>
  ELSE IF HasPrefix(p, <<"(", ".", "*", "?", ")">>)
       THEN <<Grp("lazy")>> \o re_compile(Drop(p, 5))
  ELSE IF HasPrefix(p, <<"(", ".", "*", ")">>)
       THEN <<Grp("greedy")>> \o re_compile(Drop(p, 4))
  ELSE IF HasPrefix(p, <<"(", ".", "+", ")">>)
       THEN <<Grp("plus")>> \o re_compile(Drop(p, 4))
  ELSE IF HasPrefix(p, <<".", "*", "?">>)
       THEN <<Rep("lazy")>> \o re_compile(Drop(p, 3))
  ELSE IF HasPrefix(p, <<".", "*">>)
       THEN <<Rep("greedy")>> \o re_compile(Drop(p, 2))
  ELSE IF HasPrefix(p, <<".", "+">>)
       THEN <<Rep("plus")>> \o re_compile(Drop(p, 2))
  ELSE IF p[1] = "\\" /\ Len(p) >= 2
       THEN <<Lit(p[2])>> \o re_compile(Drop(p, 2))
  ELSE IF p[1] = "."
       THEN <<AnyChar>> \o re_compile(Drop(p, 1))
  ELSE <<Lit(p[1])>> \o re_compile(Drop(p, 1))

\* Regex(pattern).groups
num_groups(toks) == Cardinality({i \in 1..Len(toks) : toks[i].t = "grp"})

NoMatch == [ok |-> FALSE, caps |-> <<>>]

\* Backtracking match of toks[k..] at position pos of s.  A lazy repetition
\* takes the shortest length for which the rest matches, a greedy one the
\* longest.
RECURSIVE re_match(_, _, _, _)
re_match(toks, k, s, pos) ==
  IF k > Len(toks) THEN [ok |-> TRUE, caps |-> <<>>]
  ELSE LET t == toks[k] IN
    IF t.t = "lit"
    THEN IF pos <= Len(s) /\ s[pos] = t.c
         THEN re_match(toks, k + 1, s, pos + 1) ELSE NoMatch
    ELSE IF t.t = "any"
    THEN IF pos <= Len(s)
         THEN re_match(toks, k + 1, s, pos + 1) ELSE NoMatch
    ELSE LET least == IF t.q = "plus" THEN 1 ELSE 0
             lens == {l \in least..(Len(s) - pos + 1) :
                        re_match(toks, k + 1, s, pos + l).ok}
         IN IF lens = {} THEN NoMatch
            ELSE LET l == IF t.q = "lazy" THEN Min(lens) ELSE Max(lens)
                     rest == re_match(toks, k + 1, s, pos + l)
                 IN [ok |-> TRUE,
                     caps |-> (IF t.t = "grp"
                               THEN <<SubSeq(s, pos, pos + l - 1)>>
                               ELSE <<>>) \o rest.caps]

\* Matching anchored at the first character only.
re_match_start(toks, s) == re_match(toks, 1, s, 1)

\* re.search: the leftmost position at which the pattern matches.
re_search(toks, s) ==
  LET starts == {i \in 1..(Len(s) + 1) : re_match(toks, 1, s, i).ok}
  IN IF starts = {} THEN NoMatch ELSE re_match(toks, 1, s, Min(starts))


\* The keys of a dotted field name: 'entities.subject' -> entities, subject
RECURSIVE split_dots(_, _, _)
split_dots(s, i, cur) ==
  IF i > Len(s) THEN <<cur>>
  ELSE IF s[i] = "." THEN <<cur>> \o split_dots(s, i + 1, "")
  ELSE split_dots(s, i + 1, cur \o s[i])

\* nested_notation_to_tree: entities.subject, v -> {entities: {subject: v}}
RECURSIVE nested_tree(_, _)
nested_tree(keys, value) ==
  IF Len(keys) = 1 THEN Map(keys[1] :> value)
  ELSE Map(keys[1] :> nested_tree(Tail(keys), value))

nested_notation_to_tree(field, value) ==
  nested_tree(split_dots(field, 1, ""), value)

\* Outcome of a call: a returned document or a raised error
Return(d) == [ok |-> TRUE, doc |-> d, err |-> ""]
Raise(e) == [ok |-> FALSE, doc |-> EmptyDoc, err |-> e]

\* A single string of fields counts as one field.
field_list(fields) == IF fields.k = "str" THEN <<fields.v>> ELSE fields.v

parse_from_regex_anchored(string, pattern, fields) ==
  LET s == posix(string)
      toks == re_compile(pattern)
      fl == field_list(fields)
      m == re_match_start(toks, s)
  IN IF num_groups(toks) # Len(fl) THEN Raise("FieldCountMismatchError")
     ELSE IF ~m.ok THEN Raise("PatternMismatchError")
     ELSE Return(deep_merge_N([i \in 1..Len(fl) |->
                    nested_notation_to_tree(fl[i], Str(m.caps[i]))]))

\* parse_from_regex(string, pattern, fields)
parse_from_regex(string, pattern, fields) ==
  LET s == posix(string)
      toks == re_compile(pattern)
      fl == field_list(fields)
      m == re_search(toks, s)
  IN IF num_groups(toks) # Len(fl) THEN Raise("FieldCountMismatchError")
     ELSE IF ~m.ok THEN Raise("PatternMismatchError")
     ELSE Return(deep_merge_N([i \in 1..Len(fl) |->
                    nested_notation_to_tree(fl[i], Str(m.caps[i]))]))

SpecialChars == {".", "\\", "(", ")", "*", "+", "?", "-"}

\* re.escape of one character
re_escape(c) == IF c \in SpecialChars THEN <<"\\", c>> ELSE <<c>>

\* The regex of a placeholder pattern: literals escaped, each %name% token
\* replaced by the matcher.
RECURSIVE placeholder_regex(_, _, _, _, _)
placeholder_regex(p, i, inside, encloser, matcher) ==
  IF i > Len(p) THEN <<>>
  ELSE IF <<p[i]>> = encloser
       THEN (IF inside THEN <<>> ELSE matcher)
            \o placeholder_regex(p, i + 1, ~inside, encloser, matcher)
  ELSE IF inside THEN placeholder_regex(p, i + 1, inside, encloser, matcher)
  ELSE re_escape(p[i]) \o placeholder_regex(p, i + 1, inside, encloser, matcher)

\* The field names of a placeholder pattern, left to right.
RECURSIVE placeholder_fields(_, _, _, _, _)
placeholder_fields(p, i, inside, cur, encloser) ==
  IF i > Len(p) THEN <<>>
  ELSE IF <<p[i]>> = encloser
       THEN IF inside
            THEN <<cur>> \o placeholder_fields(p, i + 1, FALSE, <<>>, encloser)
            ELSE placeholder_fields(p, i + 1, TRUE, <<>>, encloser)
  ELSE IF inside
       THEN placeholder_fields(p, i + 1, TRUE, Append(cur, p[i]), encloser)
  ELSE placeholder_fields(p, i + 1, FALSE, cur, encloser)

\* parse_from_placeholder(string, pattern, encloser, matcher): the pattern is
\* put in forward-slash form, lowered to a regex and handed to
\* parse_from_regex.
parse_from_placeholder(string, pattern, encloser, matcher) ==
  LET p == posix(pattern)
  IN parse_from_regex(string,
                      placeholder_regex(p, 1, FALSE, encloser, matcher),
                      List(placeholder_fields(p, 1, FALSE, <<>>, encloser)))

---------------------------------------------------------------------------
(* get_info_from_path, rules.py lines 21-54 *)

DefaultEncloser == Str(<<"%">>)
DefaultMatcher == Str(<<"(", ".", "+", ")">>)

patterns_extracted_lazy_default(path, rules__) ==
  LET non_bids_rules == Get(rules__, "non-bids", EmptyDoc)
  IN IF "path_analysis" \in Keys(non_bids_rules)
     THEN LET path_analysis == non_bids_rules.v["path_analysis"]
              pattern == Get(path_analysis, "pattern", Str(<<>>))
          IN IF "fields" \in Keys(path_analysis)
             THEN parse_from_regex(path, pattern.v,
                                   Get(path_analysis, "fields", List(<<>>)))
             ELSE parse_from_placeholder(path, pattern.v,
                      Get(path_analysis, "encloser", DefaultEncloser).v,
                      Get(path_analysis, "matcher",
                          Str(<<"(", ".", "*", "?", ")">>)).v)
     ELSE Return(EmptyDoc)

\* patterns_extracted of lines 38-49
patterns_extracted(path, rules__) ==
  LET non_bids_rules == Get(rules__, "non-bids", EmptyDoc)
  IN IF "path_analysis" \in Keys(non_bids_rules)
     THEN LET path_analysis == non_bids_rules.v["path_analysis"]
              pattern == Get(path_analysis, "pattern", Str(<<>>))
          IN IF "fields" \in Keys(path_analysis)
             THEN parse_from_regex(path, pattern.v,
                                   Get(path_analysis, "fields", List(<<>>)))
             ELSE parse_from_placeholder(path, pattern.v,
                      Get(path_analysis, "encloser", DefaultEncloser).v,
                      Get(path_analysis, "matcher", DefaultMatcher).v)
     ELSE Return(EmptyDoc)

get_info_from_path_keep_ignore(path, rules) ==
  LET ex == patterns_extracted(path, rules)
  IN IF ~ex.ok THEN ex ELSE Return(deep_merge_N(<<rules, ex.doc>>))

get_info_from_path_base_wins(path, rules) ==
  LET ex == patterns_extracted(path, rules)
  IN IF ~ex.ok THEN ex
     ELSE Return(deep_merge_N(
            <<IF "ignore" \in Keys(ex.doc) THEN Del(ex.doc, "ignore") ELSE ex.doc,
              rules>>))

get_info_from_path_swallow(path, rules) ==
  LET ex == patterns_extracted(path, rules)
  IN IF ~ex.ok THEN Return(rules)
     ELSE Return(deep_merge_N(
            <<rules,
              IF "ignore" \in Keys(ex.doc) THEN Del(ex.doc, "ignore") ELSE ex.doc>>))

\* get_info_from_path(path, rules): the rules are copied, the extracted
\* document loses its top-level 'ignore' and is merged last; an error of the
\* parser is not caught.
get_info_from_path(path, rules) ==
  LET rules__ == rules
      ex == patterns_extracted(path, rules__)
  IN IF ~ex.ok THEN ex
     ELSE Return(deep_merge_N(
            <<rules__,
              IF "ignore" \in Keys(ex.doc) THEN Del(ex.doc, "ignore") ELSE ex.doc>>))

---------------------------------------------------------------------------
(* Inputs of the path-analysis specification *)

SeqsUpTo(S, n) == UNION {[1..m -> S] : m \in 1..n}

PathChars == {"s", ".", "/", "\\"}
Paths == SeqsUpTo(PathChars, MaxPathLen)

F_subject == <<"entities", ".", "subject">>
F_session == <<"entities", ".", "session">>
F_ignore == <<"ignore">>
F_ent_ignore == <<"entities", ".", "ignore">>

LazyGroup == <<"(", ".", "*", "?", ")">>
GreedyGroup == <<"(", ".", "*", ")">>
PlusGroup == <<"(", ".", "+", ")">>

RegexAnalysis(pattern, fields) ==
  Map([key \in {"pattern", "fields"} |->
        IF key = "pattern" THEN Str(pattern) ELSE fields])

PlaceholderAnalysis(pattern) == Map([key \in {"pattern"} |-> Str(pattern)])

\* regex mode: a pattern and its ordered field list (or single field)
RegexAnalyses ==
  { RegexAnalysis(<<"s">> \o PlusGroup, List(<<F_subject>>)),
    RegexAnalysis(<<"s">> \o PlusGroup, Str(F_subject)),
    RegexAnalysis(LazyGroup \o <<"\\", "/", "s">> \o GreedyGroup,
                  List(<<F_ignore, F_subject>>)),
    RegexAnalysis(<<"s">> \o LazyGroup \o <<"\\", "/">> \o PlusGroup,
                  List(<<F_subject, F_session>>)),
    RegexAnalysis(<<"s">> \o LazyGroup \o <<".">>, List(<<F_subject>>)),
    RegexAnalysis(<<".", "*", "?", "\\", "/">> \o PlusGroup, List(<<F_ignore>>)),
    RegexAnalysis(PlusGroup, List(<<F_ent_ignore>>)),
    \* field count differs from the group count
    RegexAnalysis(<<"s">> \o PlusGroup, List(<<F_ignore, F_subject>>)),
    RegexAnalysis(LazyGroup \o <<"\\", "/">> \o GreedyGroup, List(<<F_subject>>)),
    RegexAnalysis(LazyGroup \o <<"\\", "/">> \o GreedyGroup, Str(F_subject)),
    RegexAnalysis(<<"s">> \o PlusGroup, List(<<>>)) }

\* placeholder mode: no fields; encloser and matcher default
PlaceholderPatterns ==
  { <<"s", "%", "entities", ".", "subject", "%">>,
    <<"%", "ignore", "%", "\\", "s", "%", "entities", ".", "subject", "%">>,
    <<"%", "ignore", "%", "/", "s", "%", "entities", ".", "subject", "%">>,
    <<"s", "%", "entities", ".", "subject", "%", ".",
      "%", "entities", ".", "session", "%">>,
    <<"%", "entities", ".", "subject", "%", "\\",
      "%", "entities", ".", "session", "%">>,
    <<"%", "entities", ".", "ignore", "%">>,
    <<"\\", "%", "entities", ".", "subject", "%">> }

PlaceholderAnalyses ==
  {PlaceholderAnalysis(p) : p \in PlaceholderPatterns}
  \cup { Map([key \in {"pattern", "matcher"} |->
               IF key = "pattern"
               THEN Str(<<"s", "%", "entities", ".", "subject", "%", "/">>)
               ELSE Str(LazyGroup)]) }

Entities(subject, task) ==
  Map([key \in {"subject", "task"} |->
        IF key = "subject" THEN Str(subject) ELSE Str(task)])

\* base rule documents, before the non-bids section is added
BaseDocs ==
  { Map([key \in {"entities", "sidecar"} |->
          IF key = "entities" THEN Entities(<<"A">>, <<"T">>)
          ELSE Map([x \in {"PowerLineFrequency"} |-> Str(<<"50">>)])]),
    EmptyDoc,
    Map([key \in {"entities", "ignore"} |->
          IF key = "entities"
          THEN Map([x \in {"subject", "ignore"} |-> Str(<<"B">>)])
          ELSE Str(<<"x">>)]),
    Map([key \in {"entities"} |-> Str(<<"E">>)]) }

WithNonBids(base, nb) == Put(base, "non-bids", nb)

PathRules ==
  {WithNonBids(b, Map([key \in {"path_analysis"} |-> pa])) :
      b \in BaseDocs, pa \in RegexAnalyses \cup PlaceholderAnalyses}
  \cup {WithNonBids(b, Map([key \in {"eeg_extension"} |-> Str(<<".vhdr">>)])) :
          b \in BaseDocs}
  \cup BaseDocs

---------------------------------------------------------------------------
(* Inputs of the merge specification *)

MergeLeaves == {Str(<<"A">>), Str(<<"B">>), List(<<<<"A">>, <<"B">>>>)}

PartialMaps(keys, values) ==
  UNION {{Map(f) : f \in [S -> values]} : S \in SUBSET keys}

MergeInner == PartialMaps({"subject", "session"}, {Str(<<"A">>), Str(<<"B">>)})

MergeDocs ==
  {deep_merge(a, b) :
     a \in PartialMaps({"entities"}, MergeLeaves \cup MergeInner),
     b \in PartialMaps({"task"}, {Str(<<"B">>), Map("subject" :> Str(<<"A">>))})}
  \cup { Map("non-bids" :> Map("path_analysis" :> Map("pattern" :> Str(<<"A">>)))),
         Map("non-bids" :> Map("path_analysis" :> Map("fields" :> Str(<<"B">>)))),
         Map("non-bids" :> Map("path_analysis" :> Str(<<"A">>))),
         Map("non-bids" :> Map("eeg_extension" :> Str(<<"A">>))) }

---------------------------------------------------------------------------
(* State *)

VARIABLES
  pa_pc,      \* get_info_from_path: "ready", "returned" or "raised"
  pa_path,    \* its path argument
  pa_rules,   \* its rules argument
  pa_out      \* its outcome

VARIABLES
  m_pc,       \* deep_merge_N: "run" or "returned"
  m_docs,     \* its list of documents
  m_acc,      \* the accumulator
  m_i         \* the index of the next document to merge

VARIABLES
  heap,       \* the rule documents the names rules, rules_, rules__ and the
              \* merged document refer to
  fs,         \* the files under the output root: name -> content
  mapfiles,   \* the mapping files written: path -> mapping file
  agg,        \* the frame of apply_rules
  bld,        \* the frame of apply_rules_to_single_file
  calls       \* the number of calls made by the caller

VARIABLES
  pv,         \* the frames of two preview builds that run side by side
  overlapped  \* whether one of them started while the other was running

pathVars == <<pa_pc, pa_path, pa_rules, pa_out>>
raceVars == <<pv, overlapped>>
mergeVars == <<m_pc, m_docs, m_acc, m_i>>
mainVars == <<heap, fs, mapfiles, agg, bld, calls>>
vars == <<pa_pc, pa_path, pa_rules, pa_out, m_pc, m_docs, m_acc, m_i,
          heap, fs, mapfiles, agg, bld, calls, pv, overlapped>>

NoOutcome == Raise("")

PathIdle ==
  /\ pa_pc = "idle"
  /\ pa_path = <<>>
  /\ pa_rules = EmptyDoc
  /\ pa_out = NoOutcome

Slots == {"rules", "rules_", "rules__", "merged"}

NoFiles == [name \in {} |-> ""]

IdleAgg ==
  [pc |-> "idle", source |-> [t |-> "other", v |-> <<>>], files |-> <<>>,
   i |-> 1, makedirs |-> <<>>,
   all_mappings |-> <<>>, rules_ref |-> "rules", mapping_path |-> <<>>,
   written |-> <<>>, before |-> NoFiles, err |-> ""]

IdleBld ==
  [pc |-> "idle", caller |-> "", file |-> <<>>, write |-> FALSE,
   preview |-> FALSE, rules_ref |-> "rules", has_path |-> FALSE,
   base |-> <<>>, fpath |-> <<>>, orig_files |-> {}, snapshot |-> FALSE,
   sidecarjson |-> "undefined", channels |-> "undefined",
   dasetjson |-> "undefined", hooks |-> <<>>, before |-> {},
   files_before |-> NoFiles, err |-> ""]

MainIdle ==
  /\ heap = [slot \in Slots |-> EmptyDoc]
  /\ fs = NoFiles
  /\ mapfiles = NoFiles
  /\ agg = IdleAgg
  /\ bld = IdleBld
  /\ calls = 0

Builds == {"a", "b"}

IdlePreview ==
  [pc |-> "idle", file |-> <<>>, base |-> <<>>, orig_files |-> {},
   generated |-> {}, deleted |-> {}, sidecarjson |-> "undefined",
   channels |-> "undefined", dasetjson |-> "undefined", err |-> ""]

RaceIdle ==
  /\ pv = [p \in Builds |-> IdlePreview]
  /\ overlapped = FALSE

MergeIdle ==
  /\ m_pc = "idle"
  /\ m_docs = <<>>
  /\ m_acc = EmptyDoc
  /\ m_i = 1

---------------------------------------------------------------------------
(* The path-analysis specification: get_info_from_path on every path and *)
(* rule document of the input sets                                        *)

InitPath ==
  /\ pa_pc = "ready"
  /\ pa_path \in Paths
  /\ pa_rules \in PathRules
  /\ pa_out = NoOutcome
  /\ MergeIdle
  /\ MainIdle
  /\ RaceIdle

GetInfoFromPath ==
  /\ pa_pc = "ready"
  /\ pa_out' = get_info_from_path(pa_path, pa_rules)
  /\ pa_pc' = IF pa_out'.ok THEN "returned" ELSE "raised"
  /\ UNCHANGED <<pa_path, pa_rules>>
  /\ UNCHANGED <<mergeVars, mainVars, raceVars>>

NextPath == GetInfoFromPath

SpecPath == InitPath /\ [][NextPath]_vars

---------------------------------------------------------------------------
(* Vocabulary of the claims about path analysis *)

Absent == [k |-> "absent", v |-> <<>>]

RECURSIVE ValueAt(_, _)
ValueAt(d, p) ==
  IF p = <<>> THEN d
  ELSE IF IsMap(d) /\ Head(p) \in Keys(d) THEN ValueAt(d.v[Head(p)], Tail(p))
  ELSE Absent

RECURSIVE KeyPaths(_)
KeyPaths(d) ==
  IF ~IsMap(d) THEN {}
  ELSE UNION {{<<key>>} \cup {<<key>> \o p : p \in KeyPaths(d.v[key])} :
                key \in Keys(d)}

LeafPaths(d) == {p \in KeyPaths(d) : ~IsMap(ValueAt(d, p))}

IsPrefix(p, q) == Len(p) <= Len(q) /\ SubSeq(q, 1, Len(p)) = p

Configured(rules) ==
  /\ "non-bids" \in Keys(rules)
  /\ "path_analysis" \in Keys(rules.v["non-bids"])

Analysis(rules) == rules.v["non-bids"].v["path_analysis"]

RegexMode(rules) == Configured(rules) /\ "fields" \in Keys(Analysis(rules))

PlaceholderDefault(rules) ==
  /\ Configured(rules)
  /\ Keys(Analysis(rules)) = {"pattern"}

PatternOf(rules) == Analysis(rules).v["pattern"].v

\* The number of "(" of a pattern and the number of field names supplied
GroupCount(pattern) == Cardinality({i \in 1..Len(pattern) : pattern[i] = "("})
FieldCount(fields) == IF fields.k = "str" THEN 1 ELSE Len(fields.v)

\* The field names of the configured analysis, as key paths
FieldNames(rules) ==
  IF RegexMode(rules)
  THEN LET fl == field_list(Analysis(rules).v["fields"])
       IN {split_dots(fl[i], 1, "") : i \in 1..Len(fl)}
  ELSE LET fl == placeholder_fields(PatternOf(rules), 1, FALSE, <<>>, <<"%">>)
       IN {split_dots(fl[i], 1, "") : i \in 1..Len(fl)}

Called == pa_pc \in {"returned", "raised"}

---------------------------------------------------------------------------
(* C4 *)

---------------------------------------------------------------------------
(* C5 *)

\* The path-extracted document, its ignore key removed
Extracted(path, rules) ==
  LET ex == patterns_extracted(path, rules).doc
  IN IF "ignore" \in Keys(ex) THEN Del(ex, "ignore") ELSE ex

Untouched(p, ex) ==
  \A q \in LeafPaths(ex) : ~IsPrefix(p, q) /\ ~IsPrefix(q, p)

\* C5: with path analysis configured, the returned document has the
\* extracted value at every leaf the extraction produced, and the base's
\* value at every base leaf the extraction did not produce.
C5_ExtractedWins ==
  (pa_pc = "returned" /\ Configured(pa_rules)) =>
    LET ex == Extracted(pa_path, pa_rules)
    IN /\ \A p \in LeafPaths(ex) :
            ValueAt(pa_out.doc, p) = ValueAt(ex, p)
       /\ \A p \in LeafPaths(pa_rules) :
            Untouched(p, ex) => ValueAt(pa_out.doc, p) = ValueAt(pa_rules, p)

\* base and extraction disagree on a leaf, and an untouched base leaf exists
C5_Witness ==
  /\ pa_pc = "returned"
  /\ Configured(pa_rules)
  /\ LET ex == Extracted(pa_path, pa_rules)
     IN /\ \E p \in LeafPaths(ex) \cap LeafPaths(pa_rules) :
             ValueAt(ex, p) # ValueAt(pa_rules, p)
        /\ <<"entities", "task">> \in LeafPaths(pa_rules)
        /\ Untouched(<<"entities", "task">>, ex)

---------------------------------------------------------------------------
(* C8 *)

\* C8: in regex mode a field count that differs from the group count makes
\* get_info_from_path raise; no document is returned.
C8_CountMismatchRaises ==
  (Called /\ RegexMode(pa_rules)
     /\ FieldCount(Analysis(pa_rules).v["fields"]) # GroupCount(PatternOf(pa_rules)))
    => /\ pa_pc = "raised"
       /\ pa_out.err = "FieldCountMismatchError"

\* a mismatch on a path the pattern itself matches
C8_Witness ==
  /\ pa_pc = "raised"
  /\ RegexMode(pa_rules)
  /\ FieldCount(Analysis(pa_rules).v["fields"]) # GroupCount(PatternOf(pa_rules))
  /\ re_search(re_compile(PatternOf(pa_rules)), posix(pa_path)).ok
  /\ Analysis(pa_rules).v["fields"].k = "str"

---------------------------------------------------------------------------
(* C9 *)

\* The rules with the analysis replaced by a regex-mode analysis
AsRegexRules(rules, regex, fields) ==
  Put(rules, "non-bids",
      Put(rules.v["non-bids"], "path_analysis",
          RegexAnalysis(regex, List(fields))))

SameExtraction(a, b) ==
  /\ a.ok = b.ok
  /\ a.err = b.err
  /\ a.ok => Del(a.doc, "non-bids") = Del(b.doc, "non-bids")

\* C9 as stated: placeholder mode gives what regex mode gives on the regex
\* made from P by escaping the literals and putting (.+) for each placeholder.
C9_EscapedRegexEquivalent ==
  (Called /\ PlaceholderDefault(pa_rules)) =>
    LET P == PatternOf(pa_rules)
    IN SameExtraction(pa_out,
         get_info_from_path(pa_path,
           AsRegexRules(pa_rules,
             placeholder_regex(P, 1, FALSE, <<"%">>, PlusGroup),
             placeholder_fields(P, 1, FALSE, <<>>, <<"%">>))))

\* C9 as amended: the same, with the backslashes of P replaced by forward
\* slashes before the literals are escaped.
C9_PosixEscapedRegexEquivalent ==
  (Called /\ PlaceholderDefault(pa_rules)) =>
    LET P == posix(PatternOf(pa_rules))
    IN SameExtraction(pa_out,
         get_info_from_path(pa_path,
           AsRegexRules(pa_rules,
             placeholder_regex(P, 1, FALSE, <<"%">>, PlusGroup),
             placeholder_fields(P, 1, FALSE, <<>>, <<"%">>))))

\* placeholder mode has extracted two fields through a pattern with a backslash
C9_Witness ==
  /\ pa_pc = "returned"
  /\ PlaceholderDefault(pa_rules)
  /\ \E i \in 1..Len(PatternOf(pa_rules)) : PatternOf(pa_rules)[i] = "\\"
  /\ <<"entities", "session">> \in LeafPaths(pa_out.doc)

---------------------------------------------------------------------------
(* C10 *)

CountsAgree(rules) ==
  FieldCount(Analysis(rules).v["fields"]) = GroupCount(PatternOf(rules))

MatchesAt(rules, path, i) ==
  re_match(re_compile(PatternOf(rules)), 1, posix(path), i).ok

\* C10 as stated: a pattern that does not match from the first character of
\* the normalised path fails extraction.
C10_AnchoredAtStart ==
  (Called /\ RegexMode(pa_rules) /\ CountsAgree(pa_rules)
     /\ ~MatchesAt(pa_rules, pa_path, 1))
    => pa_pc = "raised"

\* C10 as amended: matching is a search on the forward-slash form of the
\* path, anchored at neither end: extraction succeeds exactly when the
\* pattern matches from some position, no captured value holds a backslash,
\* and it fails only when the pattern matches from no position.
C10_SearchOnPosixPath ==
  (Called /\ RegexMode(pa_rules) /\ CountsAgree(pa_rules)) =>
    /\ (pa_pc = "returned") <=>
         (\E i \in 1..(Len(pa_path) + 1) : MatchesAt(pa_rules, pa_path, i))
    /\ pa_pc = "raised" => pa_out.err = "PatternMismatchError"
    /\ pa_pc = "returned" =>
         \A f \in FieldNames(pa_rules) \ {<<"ignore">>} :
           LET val == ValueAt(pa_out.doc, f)
           IN /\ val.k = "str"
              /\ \A i \in 1..Len(val.v) : val.v[i] # "\\"
              /\ \E a, b \in 0..Len(pa_path) :
                   val.v = SubSeq(posix(pa_path), a + 1, b)

\* a match that starts after the first character and stops before the last,
\* on a path holding a backslash
C10_Witness ==
  /\ pa_pc = "returned"
  /\ RegexMode(pa_rules)
  /\ CountsAgree(pa_rules)
  /\ ~MatchesAt(pa_rules, pa_path, 1)
  /\ \E i \in 1..Len(pa_path) : pa_path[i] = "\\"
  /\ LET val == ValueAt(pa_out.doc, <<"entities", "subject">>)
     IN /\ val.k = "str"
        /\ Len(val.v) = 1
        /\ Len(pa_path) = 4

---------------------------------------------------------------------------
(* The merge specification: deep_merge_N, one document per step *)

InitMerge ==
  /\ m_pc = "run"
  /\ m_docs \in UNION {[1..n -> MergeDocs] : n \in 0..MaxDocs}
  /\ m_acc = EmptyDoc
  /\ m_i = 1
  /\ PathIdle
  /\ MainIdle
  /\ RaceIdle

MergeStep ==
  /\ m_pc = "run"
  /\ m_i <= Len(m_docs)
  /\ m_acc' = deep_merge(m_acc, m_docs[m_i])
  /\ m_i' = m_i + 1
  /\ UNCHANGED <<m_pc, m_docs>>
  /\ UNCHANGED <<pathVars, mainVars, raceVars>>

MergeReturn ==
  /\ m_pc = "run"
  /\ m_i > Len(m_docs)
  /\ m_pc' = "returned"
  /\ UNCHANGED <<m_docs, m_acc, m_i>>
  /\ UNCHANGED <<pathVars, mainVars, raceVars>>

NextMerge == MergeStep \/ MergeReturn

SpecMerge == InitMerge /\ [][NextMerge]_vars

---------------------------------------------------------------------------
(* C6 *)

IsLeaf(val) == val # Absent /\ ~IsMap(val)

ProperPrefixes(p) == {SubSeq(p, 1, n) : n \in 1..(Len(p) - 1)}

\* The last document among the first n that holds a non-mapping value
\* above p: what came before it under p was replaced (0: there is none).
LastCut(docs, n, p) ==
  Max({0} \cup {j \in 1..n :
                  \E q \in ProperPrefixes(p) : IsLeaf(ValueAt(docs[j], q))})

Writers(docs, n, p) ==
  {j \in (LastCut(docs, n, p) + 1)..n : ValueAt(docs[j], p) # Absent}

\* What the merge of the first n documents holds at key path p
RightBiasedAt(acc, docs, n, p) ==
  IF Writers(docs, n, p) = {} THEN ValueAt(acc, p) = Absent
  ELSE LET last == ValueAt(docs[Max(Writers(docs, n, p))], p)
       IN IF IsMap(last) THEN IsMap(ValueAt(acc, p))
          ELSE ValueAt(acc, p) = last

MergePaths(acc, docs) ==
  KeyPaths(acc) \cup UNION {KeyPaths(docs[j]) : j \in 1..Len(docs)}

\* C6: the merge is deep and right-biased.  At every key path the result
\* holds the value of the last document that has the path (a mapping there
\* is merged with the mappings after the last non-mapping value, anything
\* else replaces what was there), a path of one document only is kept, and
\* the empty list gives the empty document.
C6_DeepRightBiased ==
  /\ \A p \in MergePaths(m_acc, m_docs) :
       RightBiasedAt(m_acc, m_docs, m_i - 1, p)
  /\ (m_pc = "returned" /\ m_docs = <<>>) => m_acc = EmptyDoc
  /\ m_pc = "returned" => m_acc = deep_merge_N(m_docs)

\* merge([{entities:{subject:A, session:B}}, {entities:{subject:B}}])
\*   = {entities:{subject:B, session:B}}
C6_Witness ==
  /\ m_pc = "returned"
  /\ m_docs = << Map("entities" :> Map([key \in {"subject", "session"} |->
                        IF key = "subject" THEN Str(<<"A">>) ELSE Str(<<"B">>)])),
                 Map("entities" :> Map("subject" :> Str(<<"B">>))) >>
  /\ m_acc = Map("entities" :> Map([key \in {"subject", "session"} |->
                        Str(<<"B">>)]))

---------------------------------------------------------------------------
(* The output root and the external collaborators *)

Root == <<"out">>
DatasetDescriptionFile == Root \o <<"/", "dataset_description.json">>

\* BIDSPath(**entities, root): the path of the recording up to its suffix
bids_base(entities) ==
  Root \o <<"/", "sub-">> \o Get(entities, "subject", Str(<<"None">>)).v

DataFile(base) == base \o <<"_eeg", ".vhdr">>
SidecarFile(base) == base \o <<"_eeg", ".json">>
ChannelsFile(base) == base \o <<"_channels", ".tsv">>

write_file(files, name, content) == (name :> content) @@ files
remove_files(files, names) == [x \in DOMAIN files \ names |-> files[x]]

\* _get_files(root): every file under the output root
get_files_under_root(files, maps) ==
  DOMAIN files \cup {path \in DOMAIN maps : HasPrefix(path, Root)}

\* write_raw_bids(raw, bids_path, overwrite=True): the recording, its sidecar
\* and its channel table are written over whatever is there, and the dataset
\* description is created when there is none.
write_raw_bids(files, base, content) ==
  LET written == [name \in {DataFile(base), SidecarFile(base), ChannelsFile(base)}
                    |-> content] @@ files
  IN IF DatasetDescriptionFile \in DOMAIN written THEN written
     ELSE write_file(written, DatasetDescriptionFile, "default")

\* the writer raising after the data file is on disk
write_raw_bids_failing(files, base, content) ==
  write_file(files, DataFile(base), content)

\* update_dataset_description(dataset_description, root, do_not_create): an
\* existing description is read and the rules' description merged into it; a
\* missing one is created from the rules' description unless do_not_create.
update_dataset_description(desc, files, do_not_create) ==
  IF DatasetDescriptionFile \in DOMAIN files
  THEN IF files[DatasetDescriptionFile] = "bad"
       THEN [ok |-> FALSE, files |-> files]
       ELSE IF desc = EmptyDoc THEN [ok |-> TRUE, files |-> files]
       ELSE [ok |-> TRUE,
             files |-> write_file(files, DatasetDescriptionFile, "described")]
  ELSE IF do_not_create \/ desc = EmptyDoc THEN [ok |-> TRUE, files |-> files]
       ELSE [ok |-> TRUE,
             files |-> write_file(files, DatasetDescriptionFile, "described")]

Overlaid(content) ==
  IF content \in {"crop", "crop+rules"} THEN "crop+rules"
  ELSE IF content \in {"full", "full+rules"} THEN "full+rules"
  ELSE "pre+rules"

\* exec(command): the command <<"bad">> raises, any other runs
hook_outcome(command) == IF command = <<"bad">> THEN "error" ELSE "ok"

---------------------------------------------------------------------------
(* apply_rules_to_single_file, rules.py lines 116-297 *)

\* lines 182-183: a single command becomes a list of one command
normalise_code_execution(rules__) ==
  IF /\ "non-bids" \in Keys(rules__)
     /\ IsMap(rules__.v["non-bids"])
     /\ "code_execution" \in Keys(rules__.v["non-bids"])
     /\ rules__.v["non-bids"].v["code_execution"].k = "str"
  THEN Put(rules__, "non-bids",
           Put(rules__.v["non-bids"], "code_execution",
               List(<<rules__.v["non-bids"].v["code_execution"].v>>)))
  ELSE rules__

RECURSIVE run_until_error(_, _)
run_until_error(commands, i) ==
  IF i > Len(commands) THEN <<>>
  ELSE IF hook_outcome(commands[i]) = "error" THEN <<<<commands[i], "error">>>>
  ELSE <<<<commands[i], "ok">>>> \o run_until_error(commands, i + 1)

run_hooks_stop_at_error(rules__) ==
  IF /\ "non-bids" \in Keys(rules__)
     /\ "code_execution" \in Keys(rules__.v["non-bids"])
     /\ rules__.v["non-bids"].v["code_execution"].k = "list"
  THEN run_until_error(rules__.v["non-bids"].v["code_execution"].v, 1)
  ELSE <<>>

\* lines 184-190: every command is run in list order, an error is printed
run_hooks(rules__) ==
  IF /\ "non-bids" \in Keys(rules__)
     /\ "code_execution" \in Keys(rules__.v["non-bids"])
     /\ rules__.v["non-bids"].v["code_execution"].k = "list"
  THEN LET commands == rules__.v["non-bids"].v["code_execution"].v
       IN [i \in 1..Len(commands) |-> <<commands[i], hook_outcome(commands[i])>>]
  ELSE <<>>

Raised(b, e) == [b EXCEPT !.pc = "raised", !.err = e]

\* a list element that is no string, such as a number
NotAString == <<"#5">>

isinstance_str(x) == x # NotAString

\* lines 145-197: copy the rules, read the recording (which raises when the
\* file is no path), get the info of the path, check entities, run the
\* hooks, resolve the path
Begin ==
  /\ bld.pc = "l145"
  /\ LET rules__ == heap[bld.rules_ref]
         info == get_info_from_path(bld.file, rules__)
     IN IF ~isinstance_str(bld.file)
        THEN /\ bld' = Raised(bld, "TypeError")
             /\ heap' = [heap EXCEPT !["rules__"] = rules__]
        ELSE IF ~info.ok
        THEN /\ bld' = Raised(bld, info.err)
             /\ heap' = [heap EXCEPT !["rules__"] = rules__]
        ELSE IF "entities" \notin Keys(info.doc)
        THEN /\ bld' = Raised(bld, "AssertionError")
             /\ heap' = [heap EXCEPT !["rules__"] = rules__,
                                     !["merged"] = info.doc]
        ELSE LET merged == normalise_code_execution(info.doc)
             IN /\ heap' = [heap EXCEPT !["rules__"] = rules__,
                                        !["merged"] = merged]
                /\ IF "non-bids" \notin Keys(merged)
                   THEN bld' = [bld EXCEPT !.pc = "l278"]
                   ELSE IF ~IsMap(merged.v["entities"])
                   THEN bld' = Raised([bld EXCEPT !.hooks = run_hooks(merged)],
                                      "TypeError")
                   ELSE bld' = [bld EXCEPT
                                  !.pc = "l198",
                                  !.hooks = run_hooks(merged),
                                  !.has_path = TRUE,
                                  !.base = bids_base(merged.v["entities"]),
                                  !.fpath = bids_base(merged.v["entities"])]
  /\ UNCHANGED <<fs, mapfiles, agg, calls>>
  /\ UNCHANGED <<pathVars, mergeVars, raceVars>>

\* lines 198-221: write goes to the writer; preview crops the recording and
\* lists the files under the root; otherwise the path gets its extension
Dispatch ==
  /\ bld.pc = "l198"
  /\ bld' = IF bld.write THEN [bld EXCEPT !.pc = "l199"]
            ELSE IF bld.preview
            THEN [bld EXCEPT !.pc = "l206",
                             !.snapshot = TRUE,
                             !.orig_files = get_files_under_root(fs, mapfiles)]
            ELSE [bld EXCEPT !.pc = "l223", !.fpath = DataFile(bld.base)]
  /\ UNCHANGED <<heap, fs, mapfiles, agg, calls>>
  /\ UNCHANGED <<pathVars, mergeVars, raceVars>>

\* lines 199 and 206: write_raw_bids, which may raise
Writer ==
  /\ bld.pc \in {"l199", "l206"}
  /\ LET content == IF bld.write THEN "full" ELSE "crop"
     IN \/ /\ fs' = write_raw_bids(fs, bld.base, content)
           /\ bld' = [bld EXCEPT !.pc = "l223"]
        \/ /\ fs' = write_raw_bids_failing(fs, bld.base, content)
           /\ bld' = Raised(bld, "WriterError")
  /\ UNCHANGED <<heap, mapfiles, agg, calls>>
  /\ UNCHANGED <<pathVars, mergeVars, raceVars>>

\* lines 223-226: the dataset description is updated and IO is put in the
\* mapping
UpdateDescription ==
  /\ bld.pc = "l223"
  /\ LET rules__ == heap["merged"]
         upd == update_dataset_description(
                  Get(rules__, "dataset_description", EmptyDoc), fs, bld.write)
     IN IF ~upd.ok
        THEN /\ bld' = Raised(bld, "JSONDecodeError")
             /\ UNCHANGED <<heap, fs>>
        ELSE /\ fs' = upd.files
             /\ heap' = [heap EXCEPT !["merged"] =
                           Put(rules__, "IO",
                               Map([key \in {"target", "source"} |->
                                      IF key = "target" THEN Str(bld.fpath)
                                      ELSE Str(bld.file)]))]
             /\ bld' = [bld EXCEPT !.pc = IF bld.write \/ bld.preview
                                          THEN "l231" ELSE "l278"]
  /\ UNCHANGED <<mapfiles, agg, calls>>
  /\ UNCHANGED <<pathVars, mergeVars, raceVars>>

\* lines 231-277: the sidecar and the channel table get the rules' values,
\* each under its own try/except; the dataset description is read
Overlays ==
  /\ bld.pc = "l231"
  /\ LET sidecar == SidecarFile(bld.base)
         channels == ChannelsFile(bld.base)
         fs1 == IF sidecar \in DOMAIN fs
                THEN write_file(fs, sidecar, Overlaid(fs[sidecar])) ELSE fs
         fs2 == IF channels \in DOMAIN fs1
                THEN write_file(fs1, channels, Overlaid(fs1[channels])) ELSE fs1
     IN /\ fs' = fs2
        /\ bld' = [bld EXCEPT
                     !.pc = "l278",
                     !.sidecarjson = IF sidecar \in DOMAIN fs
                                     THEN fs2[sidecar] ELSE "",
                     !.channels = IF channels \in DOMAIN fs1
                                  THEN fs2[channels] ELSE "",
                     !.dasetjson = IF DatasetDescriptionFile \in DOMAIN fs2
                                   THEN fs2[DatasetDescriptionFile] ELSE ""]
  /\ UNCHANGED <<heap, mapfiles, agg, calls>>
  /\ UNCHANGED <<pathVars, mergeVars, raceVars>>

\* lines 278-285: the preview dictionary; its parts are unbound when the
\* rules had no non-bids section
PreviewDict ==
  /\ bld.pc = "l278"
  /\ bld' = IF bld.preview /\ bld.dasetjson = "undefined"
            THEN Raised(bld, "NameError")
            ELSE IF ~bld.write /\ bld.preview
            THEN [bld EXCEPT !.pc = "l289"]
            ELSE [bld EXCEPT !.pc = "l294"]
  /\ UNCHANGED <<heap, fs, mapfiles, agg, calls>>
  /\ UNCHANGED <<pathVars, mergeVars, raceVars>>

new_files_all(files, maps, orig_files) == get_files_under_root(files, maps)

\* lines 290-291: the files under the root that were not listed before the
\* writer ran
new_files(files, maps, orig_files) ==
  get_files_under_root(files, maps) \ orig_files

\* lines 289-293: every such file is removed
Cleanup ==
  /\ bld.pc = "l289"
  /\ LET removed == new_files(fs, mapfiles, bld.orig_files)
     IN /\ fs' = remove_files(fs, removed)
        /\ mapfiles' = remove_files(mapfiles, removed)
  /\ bld' = [bld EXCEPT !.pc = "l294"]
  /\ UNCHANGED <<heap, agg, calls>>
  /\ UNCHANGED <<pathVars, mergeVars, raceVars>>

\* lines 294-297: the mapping is returned without its dataset_description
ReturnMapping ==
  /\ bld.pc = "l294"
  /\ heap' = [heap EXCEPT !["merged"] =
                IF "dataset_description" \in Keys(heap["merged"])
                THEN Del(heap["merged"], "dataset_description")
                ELSE heap["merged"]]
  /\ bld' = [bld EXCEPT !.pc = "returned"]
  /\ UNCHANGED <<fs, mapfiles, agg, calls>>
  /\ UNCHANGED <<pathVars, mergeVars, raceVars>>

BuildEnded == bld.pc \in {"returned", "raised"}

\* a call of apply_rules_to_single_file
StartBuild(caller, file, rules_ref, write, preview) ==
  [IdleBld EXCEPT !.pc = "l145", !.caller = caller, !.file = file,
                  !.rules_ref = rules_ref, !.write = write,
                  !.preview = preview,
                  !.before = get_files_under_root(fs, mapfiles),
                  !.files_before = fs]

---------------------------------------------------------------------------
(* The Mapping File: yaml.dump and yaml.load *)

\* yaml.dump writes the keys of a mapping in sorted order
KeyOrder ==
  <<"IO", "Name", "PowerLineFrequency", "code_execution",
    "dataset_description", "eeg_extension", "entities", "fields", "ignore",
    "non-bids", "path_analysis", "pattern", "session", "sidecar", "source",
    "subject", "target", "task">>

Scalar(s) == [t |-> "scalar", s |-> s]

RECURSIVE yaml_dump(_)
yaml_dump(doc) ==
  IF doc.k = "str" THEN Scalar(doc.v)
  ELSE IF doc.k = "list"
  THEN [t |-> "sequence", items |-> [i \in 1..Len(doc.v) |-> Scalar(doc.v[i])]]
  ELSE LET ks == SelectSeq(KeyOrder, LAMBDA key : key \in DOMAIN doc.v)
       IN [t |-> "mapping",
           items |-> [i \in 1..Len(ks) |->
                        [key |-> ks[i], node |-> yaml_dump(doc.v[ks[i]])]]]

RECURSIVE yaml_load(_)
yaml_load(node) ==
  IF node.t = "scalar" THEN Str(node.s)
  ELSE IF node.t = "sequence"
  THEN List([i \in 1..Len(node.items) |-> node.items[i].s])
  ELSE Map([key \in {node.items[i].key : i \in 1..Len(node.items)} |->
              LET i == CHOOSE i \in 1..Len(node.items) : node.items[i].key = key
              IN yaml_load(node.items[i].node)])

\* {'General': rules_, 'Individual': all_mappings} as written to the file
dump_mapping_data(general, individual) ==
  [General |-> yaml_dump(general),
   Individual |-> [i \in 1..Len(individual) |-> yaml_dump(individual[i])]]

load_mapping_data(file) ==
  [General |-> yaml_load(file.General),
   Individual |-> [i \in 1..Len(file.Individual) |-> yaml_load(file.Individual[i])]]

---------------------------------------------------------------------------
(* apply_rules, rules.py lines 298-353 *)

\* copy.deepcopy into a fresh object
deepcopy(h, src, dst) == [heap |-> [h EXCEPT ![dst] = h[src]], ref |-> dst]

load_rules_alias(h, src) == [heap |-> h, ref |-> src]

\* lines 111-114: a dict is copied
load_rules(h, src) == deepcopy(h, src, "rules_")

\* os.path.split
os_path_split(path) ==
  LET slashes == {i \in 1..Len(path) : path[i] = "/"}
  IN IF slashes = {} THEN [head |-> <<>>, tail |-> path]
     ELSE [head |-> SubSeq(path, 1, Max(slashes) - 1),
           tail |-> SubSeq(path, Max(slashes) + 1, Len(path))]

\* lines 336-341: the directory os.makedirs is given
outputfolder(mapping_path) ==
  LET parts == os_path_split(mapping_path)
  IN IF parts.head = <<>> THEN Root \o <<"/", "code", "/", "sovabids">>
     ELSE parts.head

full_rules_path_as_given(mapping_path) ==
  IF mapping_path = <<>>
  THEN Root \o <<"/", "code", "/", "sovabids", "/", "mappings.yml">>
  ELSE mapping_path

\* lines 336-342: where the mapping file goes
full_rules_path(mapping_path) ==
  LET parts == os_path_split(mapping_path)
      outputname == IF parts.tail = <<>> THEN <<"mappings.yml">> ELSE parts.tail
  IN outputfolder(mapping_path) \o <<"/">> \o outputname

apply_rules_iter_skip(a, b, record) ==
  IF b.pc = "raised" THEN [a EXCEPT !.pc = "loop", !.i = a.i + 1]
  ELSE [a EXCEPT !.pc = "loop", !.i = a.i + 1,
                 !.all_mappings = Append(a.all_mappings, record)]

apply_rules_iter_prepend(a, b, record) ==
  IF b.pc = "raised" THEN [a EXCEPT !.pc = "raised", !.err = b.err]
  ELSE [a EXCEPT !.pc = "loop", !.i = a.i + 1,
                 !.all_mappings = <<record>> \o a.all_mappings]

\* lines 332-334: one round of the loop after the build has ended; what the
\* build raises leaves apply_rules
apply_rules_iter(a, b, record) ==
  IF b.pc = "raised" THEN [a EXCEPT !.pc = "raised", !.err = b.err]
  ELSE [a EXCEPT !.pc = "loop", !.i = a.i + 1,
                 !.all_mappings = Append(a.all_mappings, record)]

CallerIdle ==
  /\ agg.pc \in {"idle", "returned", "raised"}
  /\ bld.pc \in {"idle", "returned", "raised"}
  /\ calls < MaxCalls

\* the caller builds one file: apply_rules_to_single_file(file, rules, root,
\* write, preview)
CallBuild(file, write, preview) ==
  /\ CallerIdle
  /\ calls' = calls + 1
  /\ bld' = StartBuild("caller", file, "rules", write, preview)
  /\ agg' = IdleAgg
  /\ UNCHANGED <<heap, fs, mapfiles>>
  /\ UNCHANGED <<pathVars, mergeVars, raceVars>>

\* the values of source_path: a string (held as the one element of v), a
\* list, anything else
StrSource(path) == [t |-> "str", v |-> <<path>>]
ListSource(l) == [t |-> "list", v |-> l]
OtherSource == [t |-> "other", v |-> <<>>]

\* the directory of recordings and what _get_files lists in it
SourceDir == <<"d">>
DirListing ==
  << <<"d", "\\", "s", "3", ".", "vhdr">>,
     <<"d", "\\", "n", ".", "txt">>,
     <<"d", "\\", "s", "1">> >>

\* sovabids.settings.SUPPORTED_EXTENSIONS
SUPPORTED_EXTENSIONS == List(<< <<".", "set">>, <<".", "cnt">>, <<".", "vhdr">> >>)

\* os.path.splitext(x)[1]
splitext(x) ==
  LET seps == {i \in 1..Len(x) : x[i] = "/"}
      dots == {i \in 1..Len(x) : x[i] = "." /\ \A j \in seps : j < i}
  IN IF dots = {} THEN <<>> ELSE SubSeq(x, Max(dots), Len(x))

\* lines 82-90: the accepted extensions, each with its dot
extensions_of(rules_) ==
  LET found == IF /\ "non-bids" \in Keys(rules_)
                  /\ IsMap(rules_.v["non-bids"])
                  /\ "eeg_extension" \in Keys(rules_.v["non-bids"])
               THEN rules_.v["non-bids"].v["eeg_extension"]
               ELSE SUPPORTED_EXTENSIONS
      listed == IF found.k = "str" THEN <<found.v>> ELSE found.v
  IN {IF listed[i][1] = "." THEN listed[i] ELSE <<".">> \o listed[i] :
        i \in 1..Len(listed)}

\* lines 56-95: the files of the directory with an accepted extension
get_files(source_path, rules_) ==
  SelectSeq(DirListing, LAMBDA x : splitext(x) \in extensions_of(rules_))

\* lines 321-331: apply_rules(source_path, root, rules, mapping_path) loads the
\* rules and takes the file list: the files of a directory, or a copy of a
\* non-empty list whose first element is a string
CallApplyRules(source_path, mapping_path) ==
  /\ CallerIdle
  /\ calls' = calls + 1
  /\ LET loaded == load_rules(heap, "rules")
         frame == [IdleAgg EXCEPT !.source = source_path,
                                  !.mapping_path = mapping_path,
                                  !.rules_ref = loaded.ref,
                                  !.before = mapfiles]
     IN /\ heap' = loaded.heap
        /\ agg' = IF source_path.t = "str"
                  THEN [frame EXCEPT
                          !.pc = "loop",
                          !.files = get_files(source_path.v[1], heap["rules"])]
                  ELSE IF /\ source_path.t = "list"
                          /\ Len(source_path.v) # 0
                          /\ isinstance_str(source_path.v[1])
                  THEN [frame EXCEPT !.pc = "loop", !.files = source_path.v]
                  ELSE [frame EXCEPT !.pc = "raised", !.err = "ValueError"]
  /\ bld' = IdleBld
  /\ UNCHANGED <<fs, mapfiles>>
  /\ UNCHANGED <<pathVars, mergeVars, raceVars>>

\* line 333: the build of the next file, neither written nor previewed
AggCallBuild ==
  /\ agg.pc = "loop"
  /\ agg.i <= Len(agg.files)
  /\ bld' = StartBuild("apply_rules", agg.files[agg.i], agg.rules_ref,
                       FALSE, FALSE)
  /\ agg' = [agg EXCEPT !.pc = "building"]
  /\ UNCHANGED <<heap, fs, mapfiles, calls>>
  /\ UNCHANGED <<pathVars, mergeVars, raceVars>>

\* lines 333-334: the build has ended
AggStep ==
  /\ agg.pc = "building"
  /\ BuildEnded
  /\ agg' = apply_rules_iter(agg, bld, heap["merged"])
  /\ UNCHANGED <<heap, fs, mapfiles, bld, calls>>
  /\ UNCHANGED <<pathVars, mergeVars, raceVars>>

\* lines 336-353: IO is put in the general rules and the mapping data is
\* dumped to the mapping file
AggPersist ==
  /\ agg.pc = "loop"
  /\ agg.i > Len(agg.files)
  /\ LET destination == full_rules_path(agg.mapping_path)
         io == Map([key \in {"source", "target"} |->
                      IF key = "target" THEN Str(Root)
                      ELSE IF agg.source.t = "str" THEN Str(agg.source.v[1])
                      ELSE List(agg.source.v)])
         general == Put(heap[agg.rules_ref], "IO", io)
     IN /\ heap' = [heap EXCEPT ![agg.rules_ref] = general]
        /\ mapfiles' = write_file(mapfiles, destination,
                                  dump_mapping_data(general, agg.all_mappings))
        /\ agg' = [agg EXCEPT !.pc = "returned", !.written = destination,
                              !.makedirs = outputfolder(agg.mapping_path)]
  /\ UNCHANGED <<fs, bld, calls>>
  /\ UNCHANGED <<pathVars, mergeVars, raceVars>>

---------------------------------------------------------------------------
(* The inputs of the main specification *)

File_s1 == <<"d", "\\", "s", "1">>
File_s2 == <<"d", "\\", "s", "2">>
File_x == <<"d", "\\", "x">>
MainFiles == {File_s1, File_s2, File_x}

SubjectAnalysis == RegexAnalysis(<<"s">> \o PlusGroup, List(<<F_subject>>))

\* path analysis, one hook command, dataset description and sidecar
RulesFull ==
  Map([key \in {"entities", "sidecar", "dataset_description", "non-bids"} |->
        IF key = "entities" THEN Map("task" :> Str(<<"T">>))
        ELSE IF key = "sidecar" THEN Map("PowerLineFrequency" :> Str(<<"50">>))
        ELSE IF key = "dataset_description" THEN Map("Name" :> Str(<<"N">>))
        ELSE Map([x \in {"path_analysis", "code_execution", "eeg_extension"} |->
                    IF x = "path_analysis" THEN SubjectAnalysis
                    ELSE IF x = "code_execution" THEN Str(<<"ok">>)
                    ELSE Str(<<"vhdr">>)])])

\* no path analysis; a list of hook commands, the first of which raises
RulesHooks ==
  Map([key \in {"entities", "non-bids"} |->
        IF key = "entities" THEN Entities(<<"A">>, <<"T">>)
        ELSE Map("code_execution" :> List(<<<<"bad">>, <<"ok">>>>))])

\* no non-bids section
RulesPlain == Map("entities" :> Entities(<<"A">>, <<"T">>))

\* the only captured field is ignore and the rules have no entities
RulesNoEntities ==
  Map("non-bids" :>
        Map("path_analysis" :>
              RegexAnalysis(<<"s">> \o PlusGroup, List(<<F_ignore>>))))

\* two fields for one capture group
RulesMismatch ==
  Map([key \in {"entities", "non-bids"} |->
        IF key = "entities" THEN Entities(<<"A">>, <<"T">>)
        ELSE Map("path_analysis" :>
                   RegexAnalysis(<<"s">> \o PlusGroup,
                                 List(<<F_ignore, F_subject>>)))])

MainRules == {RulesFull, RulesHooks, RulesPlain, RulesNoEntities, RulesMismatch}

\* what the output root holds before the first call
Recording(subject, content) ==
  LET base == Root \o <<"/", "sub-">> \o subject
  IN [name \in {DataFile(base), SidecarFile(base), ChannelsFile(base),
                DatasetDescriptionFile} |-> content]

InitialFiles ==
  { NoFiles,
    (DatasetDescriptionFile :> "pre"),
    (DatasetDescriptionFile :> "bad"),
    Recording(<<"1">>, "pre") }

Modes == {<<FALSE, FALSE>>, <<FALSE, TRUE>>, <<TRUE, FALSE>>, <<TRUE, TRUE>>}

\* what apply_rules is given as source_path: file lists, the empty list,
\* lists with an element that is no string, a directory, a value that is
\* neither a string nor a list
SourcePaths ==
  {ListSource(l) : l \in SeqsUpTo(MainFiles, MaxFiles)}
  \cup { ListSource(<<>>), ListSource(<<NotAString>>),
         ListSource(<<NotAString, File_s1>>), ListSource(<<File_s1, NotAString>>),
         StrSource(SourceDir), OtherSource }

\* empty, a directory and a file name, a bare file name, a directory
MappingPaths ==
  {<<>>, <<"maps", "/", "my.yml">>, <<"my.yml">>, <<"maps", "/">>}

\* the calls of apply_rules: every source with the default mapping path,
\* every mapping path with a list of one file
ApplyRulesCalls ==
  (SourcePaths \X {<<>>})
  \cup ({ListSource(<<File_s1>>), ListSource(<<File_x>>)} \X MappingPaths)

---------------------------------------------------------------------------
(* The main specification: a caller with one rule document who builds     *)
(* single files and runs apply_rules over file lists                       *)

Init ==
  /\ heap \in {[slot \in Slots |-> IF slot = "rules" THEN r ELSE EmptyDoc] :
                 r \in MainRules}
  /\ fs \in InitialFiles
  /\ mapfiles = NoFiles
  /\ agg = IdleAgg
  /\ bld = IdleBld
  /\ calls = 0
  /\ PathIdle
  /\ MergeIdle
  /\ RaceIdle

Next ==
  \/ \E file \in MainFiles, mode \in Modes : CallBuild(file, mode[1], mode[2])
  \/ \E call \in ApplyRulesCalls : CallApplyRules(call[1], call[2])
  \/ Begin
  \/ Dispatch
  \/ Writer
  \/ UpdateDescription
  \/ Overlays
  \/ PreviewDict
  \/ Cleanup
  \/ ReturnMapping
  \/ AggCallBuild
  \/ AggStep
  \/ AggPersist

Spec == Init /\ [][Next]_vars

---------------------------------------------------------------------------
(* C1 *)

PreviewEnded ==
  /\ bld.caller = "caller"
  /\ bld.preview /\ ~bld.write
  /\ BuildEnded

\* C1 as stated: when a preview build has ended, returned or raised, every
\* file under the output root was there before the build started.
C1_PreviewLeavesNoNewFiles ==
  PreviewEnded => get_files_under_root(fs, mapfiles) \subseteq bld.before

---------------------------------------------------------------------------
(* C2 *)

\* the extraction and validation failures of a file under the caller's
\* rules: no match, field count mismatch, no entities
Fails(file) ==
  LET info == get_info_from_path(file, heap["rules"])
  IN isinstance_str(file) /\ (~info.ok \/ "entities" \notin Keys(info.doc))

Failing == {i \in 1..Len(agg.files) : Fails(agg.files[i])}

RunEnded == agg.pc \in {"returned", "raised"} /\ agg.files # <<>>

\* C2 as stated: a run with failing files still returns, Individual holds
\* one record per file that did not fail, and the mapping file is written.
C2_FailureDoesNotAbort ==
  (RunEnded /\ Failing # {}) =>
    /\ agg.pc = "returned"
    /\ Len(agg.all_mappings) = Len(agg.files) - Cardinality(Failing)
    /\ agg.written \in DOMAIN mapfiles

\* what the build of a failing file raises
FailureOf(file) ==
  LET info == get_info_from_path(file, heap["rules"])
  IN IF ~info.ok THEN info.err ELSE "AssertionError"

\* C2 as amended: a run with a failing file raises at the first file whose
\* build raises, which is the first failing file or one before it, with the
\* error of that build; Individual holds the records of the files before
\* it, the files after it are never built and no mapping file is written.
C2_FirstFailureAborts ==
  (RunEnded /\ Failing # {}) =>
    /\ agg.pc = "raised"
    /\ agg.i <= Min(Failing)
    /\ bld.pc = "raised" /\ bld.file = agg.files[agg.i]
    /\ agg.err = bld.err
    /\ agg.i = Min(Failing) => agg.err = FailureOf(agg.files[agg.i])
    /\ Len(agg.all_mappings) = agg.i - 1
    /\ agg.written = <<>>
    /\ mapfiles = agg.before

\* the first file fails and a file that would have succeeded follows it
C2_Witness ==
  /\ agg.pc = "raised"
  /\ agg.i = 1
  /\ Len(agg.files) = 2
  /\ isinstance_str(agg.files[2])
  /\ ~Fails(agg.files[2])

---------------------------------------------------------------------------
(* C3 *)

\* the record is the one built from the file: its entities are those of the
\* file's path and its IO.source, when it has one, is the file
BuiltFrom(record, file) ==
  LET info == get_info_from_path(file, heap["rules"])
  IN /\ info.ok
     /\ record.v["entities"] = info.doc.v["entities"]
     /\ "IO" \in Keys(record) => record.v["IO"].v["source"] = Str(file)

\* C3: when apply_rules returns, Individual has one record per file of the
\* list, the i-th built from the i-th file, and the mapping file it wrote
\* loads back to the same Individual list.
C3_IndividualInInputOrder ==
  agg.pc = "returned" =>
    /\ Len(agg.all_mappings) = Len(agg.files)
    /\ \A i \in 1..Len(agg.files) : BuiltFrom(agg.all_mappings[i], agg.files[i])
    /\ agg.written \in DOMAIN mapfiles
    /\ load_mapping_data(mapfiles[agg.written]).Individual = agg.all_mappings

\* a run over two files whose records differ has returned
C3_Witness ==
  /\ agg.pc = "returned"
  /\ Len(agg.files) = 2
  /\ agg.all_mappings[1] # agg.all_mappings[2]
  /\ "IO" \in Keys(agg.all_mappings[1])

---------------------------------------------------------------------------
(* C7 *)

\* C7: no step of a build or of apply_rules changes the caller's rule
\* document, and every build of a batch starts from rules equal to it.
C7_CallerRulesUnchanged ==
  /\ [](agg.pc = "building" => heap[bld.rules_ref] = heap["rules"])
  /\ [][heap'["rules"] = heap["rules"]]_vars

\* apply_rules has returned with IO in its own copy of the rules, after a
\* build that normalised code_execution and removed dataset_description
C7_Witness ==
  /\ agg.pc = "returned"
  /\ "IO" \in Keys(heap[agg.rules_ref])
  /\ "IO" \notin Keys(heap["rules"])
  /\ "dataset_description" \in Keys(heap["rules"])
  /\ "dataset_description" \notin Keys(heap["merged"])
  /\ heap["rules"].v["non-bids"].v["code_execution"].k = "str"
  /\ heap["merged"].v["non-bids"].v["code_execution"].k = "list"

---------------------------------------------------------------------------
(* C11 *)

DryEnded == ~bld.write /\ ~bld.preview /\ BuildEnded

\* C11 as stated: when a dry build has ended, the files under the output
\* root and their contents are those of before the build.
C11_DryBuildTouchesNoFile ==
  DryEnded => fs = bld.files_before

---------------------------------------------------------------------------
(* C12 *)

\* C12 as stated: the record a build returns has IO.source, the file, and
\* IO.target, the path the build resolved.
C12_RecordHasIO ==
  bld.pc = "returned" =>
    /\ "IO" \in Keys(heap["merged"])
    /\ heap["merged"].v["IO"].v["source"] = Str(bld.file)
    /\ heap["merged"].v["IO"].v["target"] = Str(bld.fpath)

---------------------------------------------------------------------------
(* C17 *)

\* C17 as stated: when a preview build has returned, every file of before
\* the build is there with the content it had.
C17_PreviewKeepsExistingFiles ==
  (bld.caller = "caller" /\ bld.preview /\ ~bld.write /\ bld.pc = "returned") =>
    \A name \in DOMAIN bld.files_before :
      name \in DOMAIN fs /\ fs[name] = bld.files_before[name]

---------------------------------------------------------------------------
(* C15 *)

HasHooks(rules) ==
  /\ "non-bids" \in Keys(rules)
  /\ "code_execution" \in Keys(rules.v["non-bids"])

\* the commands of the caller's rules, a single string being one command
Commands(rules) ==
  LET code == rules.v["non-bids"].v["code_execution"]
  IN IF code.k = "str" THEN <<code.v>> ELSE code.v

\* C15: once a build with hook commands has passed validation, every command
\* has been run, in list order, whether or not an earlier one raised; the
\* build has resolved its target, and if it raises later it is with the error
\* of the writer or of the dataset description, never of a hook.
C15_HookFailureNeverAborts ==
  (bld.pc \notin {"idle", "l145"} /\ HasHooks(heap["rules"])
     /\ isinstance_str(bld.file) /\ ~Fails(bld.file)) =>
    LET commands == Commands(heap["rules"])
    IN /\ Len(bld.hooks) = Len(commands)
       /\ \A i \in 1..Len(commands) :
            bld.hooks[i] = <<commands[i], hook_outcome(commands[i])>>
       /\ bld.has_path
       /\ bld.pc = "raised" => bld.err \in {"WriterError", "JSONDecodeError"}

\* the first of two commands raised, the second ran and the build returned
C15_Witness ==
  /\ bld.pc = "returned"
  /\ Len(bld.hooks) = 2
  /\ bld.hooks[1][2] = "error"
  /\ bld.hooks[2][2] = "ok"
  /\ "IO" \in Keys(heap["merged"])

---------------------------------------------------------------------------
(* C13 *)

\* a single path string, or a non-empty list of strings
ValidSource(source_path) ==
  \/ source_path.t = "str"
  \/ /\ source_path.t = "list"
     /\ Len(source_path.v) # 0
     /\ \A i \in 1..Len(source_path.v) : isinstance_str(source_path.v[i])

\* C13 as stated: a call of apply_rules with any other source has raised the
\* source-path error, no build was started and no mapping file written.
C13_TypeErrorBeforeAnyBuild ==
  (agg.pc # "idle" /\ ~ValidSource(agg.source)) =>
    /\ agg.pc = "raised"
    /\ agg.err = "ValueError"
    /\ bld = IdleBld
    /\ agg.all_mappings = <<>>
    /\ mapfiles = agg.before

---------------------------------------------------------------------------
(* C14 *)

DefaultFolder == Root \o <<"/", "code", "/", "sovabids">>

\* C14 as stated: the mapping file is at mapping_path when one is given and
\* at the default place otherwise, in a directory that was made.
C14_MappingFileAtGivenPath ==
  agg.pc = "returned" =>
    /\ agg.written \in DOMAIN mapfiles
    /\ agg.written = IF agg.mapping_path = <<>>
                     THEN DefaultFolder \o <<"/", "mappings.yml">>
                     ELSE agg.mapping_path
    /\ agg.written = agg.makedirs \o <<"/", agg.written[Len(agg.written)]>>

\* C14 as amended: the mapping file is at mapping_path when that names a
\* directory and a file name; a bare file name goes to the default
\* directory; a path ending in a separator gets the default file name in
\* that directory; the empty path gives the default directory and name.  The
\* directory of the file was made before the write.
C14_MappingFileDestination ==
  agg.pc = "returned" =>
    LET given == agg.mapping_path
        bare == \A i \in 1..Len(given) : given[i] # "/"
    IN /\ agg.written \in DOMAIN mapfiles
       /\ agg.written =
            IF given = <<>> THEN DefaultFolder \o <<"/", "mappings.yml">>
            ELSE IF bare THEN DefaultFolder \o <<"/">> \o given
            ELSE IF given[Len(given)] = "/" THEN given \o <<"mappings.yml">>
            ELSE given
       /\ agg.written = agg.makedirs \o <<"/", agg.written[Len(agg.written)]>>

\* a bare file name was given and the file is in the default directory
C14_Witness ==
  /\ agg.pc = "returned"
  /\ agg.mapping_path = <<"my.yml">>
  /\ (DefaultFolder \o <<"/", "my.yml">>) \in DOMAIN mapfiles
  /\ agg.makedirs = DefaultFolder

---------------------------------------------------------------------------
(* Two preview builds over the same output root, their steps interleaved:  *)
(* apply_rules_to_single_file(file, rules, root, write=False, preview=True) *)
(* called by two callers at once                                           *)

Running(q) == pv[q].pc \notin {"idle", "returned", "raised"}

RaceFrame == UNCHANGED <<heap, mapfiles, agg, bld, calls, pathVars, mergeVars>>

\* lines 145-197: the rules are copied, the path analysed, entities checked,
\* the hooks run and the path resolved; without a non-bids section nothing
\* is written and line 282 raises
RaceBegin(p, file) ==
  /\ pv[p].pc = "idle"
  /\ LET info == get_info_from_path(file, heap["rules"])
         started == [pv[p] EXCEPT !.file = file]
     IN pv' = [pv EXCEPT ![p] =
                 IF ~info.ok THEN Raised(started, info.err)
                 ELSE IF "entities" \notin Keys(info.doc)
                 THEN Raised(started, "AssertionError")
                 ELSE IF "non-bids" \notin Keys(info.doc)
                 THEN Raised(started, "NameError")
                 ELSE IF ~IsMap(info.doc.v["entities"])
                 THEN Raised(started, "TypeError")
                 ELSE [started EXCEPT !.pc = "l205",
                                      !.base = bids_base(info.doc.v["entities"])]]
  /\ overlapped' = (overlapped \/ \E q \in Builds \ {p} : Running(q))
  /\ UNCHANGED fs
  /\ RaceFrame

\* line 205: the files under the root are listed
RaceSnapshot(p) ==
  /\ pv[p].pc = "l205"
  /\ pv' = [pv EXCEPT ![p].pc = "l206",
                      ![p].orig_files = get_files_under_root(fs, mapfiles)]
  /\ UNCHANGED <<fs, overlapped>>
  /\ RaceFrame

\* line 206: write_raw_bids, which may raise
RaceWriter(p) ==
  /\ pv[p].pc = "l206"
  /\ \/ /\ fs' = write_raw_bids(fs, pv[p].base, "crop")
        /\ pv' = [pv EXCEPT ![p].pc = "l223",
                            ![p].generated = DOMAIN fs' \ DOMAIN fs]
     \/ /\ fs' = write_raw_bids_failing(fs, pv[p].base, "crop")
        /\ pv' = [pv EXCEPT ![p] = Raised([pv[p] EXCEPT
                                    !.generated = DOMAIN fs' \ DOMAIN fs], "WriterError")]
  /\ UNCHANGED overlapped
  /\ RaceFrame

\* lines 223-226: the dataset description is updated
RaceUpdateDescription(p) ==
  /\ pv[p].pc = "l223"
  /\ LET upd == update_dataset_description(
                  Get(heap["rules"], "dataset_description", EmptyDoc), fs, FALSE)
     IN IF ~upd.ok
        THEN /\ pv' = [pv EXCEPT ![p] = Raised(pv[p], "JSONDecodeError")]
             /\ UNCHANGED fs
        ELSE /\ fs' = upd.files
             /\ pv' = [pv EXCEPT
                         ![p].pc = "l231",
                         ![p].generated = @ \cup (DOMAIN upd.files \ DOMAIN fs)]
  /\ UNCHANGED overlapped
  /\ RaceFrame

\* lines 231-277: the sidecar and the channel table are rewritten and read,
\* each under its own try/except, and the dataset description is read
RaceOverlays(p) ==
  /\ pv[p].pc = "l231"
  /\ LET sidecar == SidecarFile(pv[p].base)
         channels == ChannelsFile(pv[p].base)
         fs1 == IF sidecar \in DOMAIN fs
                THEN write_file(fs, sidecar, Overlaid(fs[sidecar])) ELSE fs
         fs2 == IF channels \in DOMAIN fs1
                THEN write_file(fs1, channels, Overlaid(fs1[channels])) ELSE fs1
     IN /\ fs' = fs2
        /\ pv' = [pv EXCEPT
                    ![p].pc = "l289",
                    ![p].sidecarjson = IF sidecar \in DOMAIN fs
                                       THEN fs2[sidecar] ELSE "",
                    ![p].channels = IF channels \in DOMAIN fs1
                                    THEN fs2[channels] ELSE "",
                    ![p].dasetjson = IF DatasetDescriptionFile \in DOMAIN fs2
                                     THEN fs2[DatasetDescriptionFile] ELSE ""]
  /\ UNCHANGED overlapped
  /\ RaceFrame

\* lines 289-297: the files not in the build's own listing are removed and
\* the build returns
RaceCleanup(p) ==
  /\ pv[p].pc = "l289"
  /\ LET removed == new_files(fs, mapfiles, pv[p].orig_files)
     IN /\ fs' = remove_files(fs, removed)
        /\ pv' = [pv EXCEPT ![p].pc = "returned",
                            ![p].deleted = removed \cap DOMAIN fs]
  /\ UNCHANGED overlapped
  /\ RaceFrame

InitRace ==
  /\ heap \in {[slot \in Slots |-> IF slot = "rules" THEN r ELSE EmptyDoc] :
                 r \in MainRules}
  /\ fs \in InitialFiles
  /\ mapfiles = NoFiles
  /\ agg = IdleAgg
  /\ bld = IdleBld
  /\ calls = 0
  /\ PathIdle
  /\ MergeIdle
  /\ RaceIdle

NextRace ==
  \/ \E p \in Builds, file \in MainFiles : RaceBegin(p, file)
  \/ \E p \in Builds : RaceSnapshot(p)
  \/ \E p \in Builds : RaceWriter(p)
  \/ \E p \in Builds : RaceUpdateDescription(p)
  \/ \E p \in Builds : RaceOverlays(p)
  \/ \E p \in Builds : RaceCleanup(p)

SpecRace == InitRace /\ [][NextRace]_vars

---------------------------------------------------------------------------
(* C16 *)

\* the files a build's cleanup removed that the build did not itself create
ForeignDeleted(p) == pv[p].deleted \ pv[p].generated

\* C16: a cleanup removes a file its own build did not create only when the
\* two builds ran at the same time, and the file is then one the other build
\* created; it never removes a file of its own listing.  Builds that run one
\* after the other remove only what they created.
C16_CleanupRace ==
  \A p \in Builds :
    /\ pv[p].deleted \cap pv[p].orig_files = {}
    /\ ForeignDeleted(p) # {} =>
         /\ overlapped
         /\ \A name \in ForeignDeleted(p) :
              \E q \in Builds \ {p} : name \in pv[q].generated

\* one build's cleanup removed the sidecar the other build had written, and
\* the other build then found nothing to read
C16_Witness ==
  \E p \in Builds, q \in Builds :
    /\ p # q
    /\ SidecarFile(pv[q].base) \in ForeignDeleted(p)
    /\ SidecarFile(pv[q].base) \in pv[q].generated
    /\ pv[q].pc = "l289"
    /\ pv[q].sidecarjson = ""

=============================================================================
